---------------------------- MODULE Spec2Model ----------------------------
(***************************************************************************)
(* Model of the mlscan-rs scan scheduler (src/src/scanner.rs).             *)
(*                                                                         *)
(* Scanner::scan expands the request, spawns one host task per target      *)
(* under a host semaphore and awaits join_all; every host task runs        *)
(* Scanner::scan_single_host on a clone of the scanner, which spawns one   *)
(* port task per port under a per-host semaphore, awaits join_all, runs    *)
(* service detection, folds telemetry into its adaptive state and returns  *)
(* the host result.  main hands the returned result to                     *)
(* OutputWriter::write (src/src/output.rs), modelled for the CSV format.   *)
(*                                                                         *)
(* The modules crate::utils, crate::network, crate::adaptive,              *)
(* scanner::tcp/udp and scanner::service_detection are not part of the     *)
(* source tree; what the scheduler needs of them is modelled from the      *)
(* specification (sections 4.1, 4.2, 4.4, 4.5).                            *)
(***************************************************************************)
EXTENDS Integers, Sequences, FiniteSets, TLC

(***************************************************************************)
(* Bounds of the model.                                                    *)
(***************************************************************************)
MaxHosts == 2

MaxPorts == 2

\* Values of --parallel-hosts the model explores (0 is accepted by the CLI).
ParallelHostsChoices == {0, 1, 2}

(***************************************************************************)
(* Program constants.                                                      *)
(***************************************************************************)
DefaultTimeout == 1000

DefaultRateLimit == 100

MinScansForOptimization == 5

\* ScanConfig::default_parallelism, the operator's per-host parallelism.
DefaultParallelism == 50

(***************************************************************************)
(* Values.                                                                 *)
(***************************************************************************)
None == "None"

\* A JoinHandle without output yet; an unset value.
NoResult == [none |-> TRUE]

\* Option<f64>: no value, or one value.
NoTime == <<>>

SomeTime(t) == <<t>>

ParseError == [err |-> "ParseError"]

Parsed(list) == [list |-> list]

PortStatus == {"Open", "Closed", "Filtered", "Error"}

StatusOrder == <<"Open", "Closed", "Filtered", "Error">>

NetworkClass == {"Loopback", "LinkLocal", "Private", "Public"}

\* Addresses a target specification may expand to: an IPv4 address is its four
\* octets, an IPv6 address its eight 16-bit segments.  10.0.0.2,
\* fd12:3456::1 (unique local), 169.254.1.1 (link-local), 8.8.8.8.
AddrPool ==
    << <<10, 0, 0, 2>>, <<64786, 13398, 0, 0, 0, 0, 0, 1>>, <<169, 254, 1, 1>>,
       <<8, 8, 8, 8>> >>

IsV4(ip) == Len(ip) = 4

\* The scan kinds of the invocation surface.
ScanTypes == {"Syn", "Connect", "Udp", "Fin", "Xmas", "Null"}

\* The kinds that need a raw socket, hence elevated privilege.
RawScanTypes == ScanTypes \ {"Connect"}

\* Ports a port specification may expand to.
PortPool == <<22, 80, 443, 8080>>

\* The soft limit on open file descriptors of the process (RLIMIT_NOFILE),
\* scaled to the parallelism the model explores.
FdSoftLimit == 4

\* The behaviours of the scanned network that the model explores.
Worlds == 0 .. 3

Min(a, b) == IF a < b THEN a ELSE b

(***************************************************************************)
(* crate::network::parse_targets and crate::utils::parse_ports: the        *)
(* expansions they can return (spec 4.1): an ordered duplicate-free        *)
(* address list; an ascending duplicate-free, non-empty port list.         *)
(***************************************************************************)
TargetLists == { Parsed(SubSeq(AddrPool, 1, n)) : n \in 0 .. Min(MaxHosts, Len(AddrPool)) }

PortLists == { Parsed(SubSeq(PortPool, 1, n)) : n \in 1 .. Min(MaxPorts, Len(PortPool)) }

(***************************************************************************)
(* crate::adaptive (spec 4.4).                                             *)
(***************************************************************************)
classify_network(ip) ==
    IF IsV4(ip)
    THEN IF ip[1] = 127 THEN "Loopback"
         ELSE IF ip[1] = 169 /\ ip[2] = 254 THEN "LinkLocal"
         ELSE IF \/ ip[1] = 10
                 \/ (ip[1] = 172 /\ ip[2] >= 16 /\ ip[2] <= 31)
                 \/ (ip[1] = 192 /\ ip[2] = 168) THEN "Private"
         ELSE "Public"
    ELSE IF ip = <<0, 0, 0, 0, 0, 0, 0, 1>> THEN "Loopback"
         ELSE IF ip[1] \div 64 = 1018 THEN "LinkLocal"    \* fe80::/10
         ELSE IF ip[1] \div 512 = 126 THEN "Private"      \* fc00::/7
         ELSE "Public"

ColdProfile ==
    [seen_count |-> 0, optimal_timeout |-> 0, optimal_rate |-> 0, optimal_parallelism |-> 0]

WarmProfile ==
    [seen_count |-> MinScansForOptimization, optimal_timeout |-> 200,
     optimal_rate |-> 0, optimal_parallelism |-> 1]

\* AdaptiveLearning::new(): a cold state, or one restored from the persisted profiles.
AdaptiveStates ==
    { [c \in NetworkClass |-> IF c \in warm THEN WarmProfile ELSE ColdProfile] :
        warm \in {{}, {"Private"}} }

\* Parameters are emitted only after MinScansForOptimization folds.
get_optimal_params(al, ip) ==
    LET p == al[classify_network(ip)] IN
    IF p.seen_count >= MinScansForOptimization
    THEN [timeout |-> p.optimal_timeout, rate_limit |-> p.optimal_rate,
          parallelism |-> p.optimal_parallelism]
    ELSE [timeout |-> 0, rate_limit |-> 0, parallelism |-> 0]

\* learn_from_scan folds one host's telemetry into the profile of its class.
learn_from_scan(al, data) ==
    [al EXCEPT ![data.network_type].seen_count = @ + 1]

(***************************************************************************)
(* The probes (scanner::tcp, scanner::udp) and the service detector: what  *)
(* the network answers for the i-th port of the h-th target in world w.    *)
(***************************************************************************)
ProbeOutcome(w, h, i) == StatusOrder[((w + h + i) % 4) + 1]

DetectorAnswer(w, h, i) == IF (w + h) % 2 = 0 THEN "svc" ELSE None

\* Whether the probe ended without any reply: a Filtered outcome is either a
\* silent drop or an ICMP unreachable reply; an Error outcome had no reply.
NoReplyObserved(w, h, i) ==
    \/ ProbeOutcome(w, h, i) = "Error"
    \/ ProbeOutcome(w, h, i) = "Filtered" /\ (w + h) % 2 = 0

\* A raw-socket probe without privilege fails at the send (spec 4.2).
PrivilegeDenied(kind, priv) == kind \in RawScanTypes /\ ~priv

ProbeStatus(kind, priv, w, h, i) ==
    IF PrivilegeDenied(kind, priv) THEN "Error" ELSE ProbeOutcome(w, h, i)

ProbeElapsed(status, timeout) ==
    CASE status = "Open" -> 50
      [] status = "Closed" -> 25
      [] OTHER -> timeout

(***************************************************************************)
(* State.                                                                  *)
(***************************************************************************)
VARIABLES
    scanner,      \* the Scanner: rate_limit, timeout, parallel_hosts, adaptive_learning
    world,        \* the network the current scan call runs against
    reqTargets,   \* what parse_targets returns for the current call
    reqPorts,     \* what parse_ports returns for the current call
    phase,        \* position of the scan future
    result,       \* what scan returned
    hostPermits,  \* permits left in host_semaphore
    hpc,          \* per host task: "waiting", "scanning", "done"
    hal,          \* per host task: adaptive_learning of its scanner clone
    eff,          \* per host task: effective timeout, rate limit and parallelism
    portPermits,  \* per host task: permits left in its port semaphore
    ppc,          \* per port task: "waiting", "probing", "sleeping", "done"
    captured,     \* per port task: the timeout and rate_limit moved into the task
    pstatus,      \* per port task: the probe's result, once it has run
    outs,         \* per host task: the outputs join_all(tasks) yields
    hostOuts,     \* the outputs join_all(host_tasks) yields
    pb,           \* position of the progress bar
    scan_type,    \* the scan kind of the invocation
    privileged,   \* whether the process may open raw sockets
    probeFn,      \* per port task: the probe function it called
    learned,      \* per host task: the telemetry it handed to learn_from_scan
    output,       \* the lines OutputWriter::write produced for the result
    config,       \* a Config value
    manager,      \* a PluginManager
    det,          \* a detect_service call of a service plugin
    ret,          \* what the last call on config or manager returned
    portOvertook, \* history: a port task ended before one spawned earlier for its host
    hostOvertook  \* history: a host task ended before one spawned earlier

vars == <<scanner, world, reqTargets, reqPorts, phase, result, hostPermits, hpc, hal,
          eff, portPermits, ppc, captured, pstatus, outs, hostOuts, pb, scan_type,
          privileged, probeFn, learned, output, portOvertook, hostOvertook, config,
          manager, det, ret>>

taskVars == <<hostPermits, hpc, hal, eff, portPermits, ppc, captured, pstatus, outs,
              hostOuts, pb, probeFn, learned, portOvertook, hostOvertook>>

\* The components the scheduler does not use: Config, PluginManager and the
\* service plugins are not called from main or from Scanner.
compVars == <<config, manager, det, ret>>

\* What a scan call is given and does not change.
callVars == <<scanner, world, reqTargets, reqPorts, scan_type, privileged, compVars>>

\* Everything the scan owns.
scanVars == <<scanner, world, reqTargets, reqPorts, scan_type, privileged, phase, result,
              output, taskVars>>

targets == IF reqTargets = ParseError THEN <<>> ELSE reqTargets.list

port_list == IF reqPorts = ParseError THEN <<>> ELSE reqPorts.list

Hosts == DOMAIN hpc

PortsOf(h) == DOMAIN ppc[h]

(***************************************************************************)
(* Helpers of the scheduler.                                               *)
(***************************************************************************)
\* is_private_ip: the addresses for which the fast connect probe is used.
is_private_ip(ip) ==
    IF IsV4(ip)
    THEN \/ ip[1] = 10
         \/ (ip[1] = 172 /\ ip[2] >= 16 /\ ip[2] <= 31)
         \/ (ip[1] = 192 /\ ip[2] = 168)
         \/ ip[1] = 127
         \/ (ip[1] = 169 /\ ip[2] = 254)
    ELSE \/ ip = <<0, 0, 0, 0, 0, 0, 0, 1>>
         \/ ip[1] = 65152      \* 0xfe80
         \/ ip[1] = 64512      \* 0xfc00
         \/ ip[1] = 64768      \* 0xfd00

\* The probe function a port task calls for the scan kind and the address.
ProbeFor(kind, target_ip) ==
    CASE kind = "Syn" -> "syn_scan"
      [] kind = "Connect" -> IF is_private_ip(target_ip) THEN "fast_connect_scan"
                             ELSE "connect_scan"
      [] kind = "Udp" -> "udp_scan"
      [] kind = "Fin" -> "fin_scan"
      [] kind = "Xmas" -> "xmas_scan"
      [] kind = "Null" -> "null_scan"

\* Variant: an acquire that never waits.
AcquirableAlways(permits) == TRUE

\* Semaphore::acquire completes only while a permit is left.
Acquirable(permits) == permits > 0

\* Variant: completing with the first task that completes (a select).
JoinAny(pcs) == \E i \in DOMAIN pcs : pcs[i] = "done"

\* join_all completes once every task it was given has completed.
JoinAll(pcs) == \A i \in DOMAIN pcs : pcs[i] = "done"

\* Variant: outputs collected in the order of completion (FuturesUnordered).
StoreOutputInCompletionOrder(o, i, r) ==
    LET free == {k \in DOMAIN o : o[k] = NoResult} IN
    IF free = {} THEN o
    ELSE [o EXCEPT ![CHOOSE k \in free : \A j \in free : k <= j] = r]

\* join_all yields the outputs in the order of the tasks it was given: the
\* output of the i-th task is the i-th element, whenever the task completes.
StoreOutput(o, i, r) == [o EXCEPT ![i] = r]

\* Variant: a probe error fails the task that ran it.
ProbeFailsTaskOnError(status) == status = "Error"

\* The probe's PortStatus is a value of the task, not a failure of the task.
ProbeFailsTask(status) == FALSE

\* Variant: a pacing sleep after every probe.
PacesAlways(rate_limit) == TRUE

\* The pacing sleep is taken only for a positive rate_limit.
Paces(rate_limit) == rate_limit > 0

\* Variant: the progress bar is left where it was.
PbIncSkipped(pos) == pos

\* pb.inc(1)
PbInc(pos) == pos + 1

\* Use adaptive parameters if they are set, else the scanner's own fields.
EffectiveParams(self, optimal) ==
    [timeout |-> IF optimal.timeout > 0 THEN optimal.timeout ELSE self.timeout,
     rate_limit |-> IF optimal.rate_limit > 0 THEN optimal.rate_limit ELSE self.rate_limit,
     parallelism |-> IF optimal.parallelism > 0 THEN optimal.parallelism
                     ELSE self.parallel_hosts]

MkPortResult(port, status, scan_duration) ==
    [port |-> port, status |-> status, is_filtered |-> (status = "Filtered"),
     response_time |-> SomeTime(scan_duration), service_detected |-> None]

\* Variant: service detection on every port.
ServiceForAnyStatus(status, detected) == detected

\* Service detection is performed on open ports only.
ServiceFor(status, detected) == IF status = "Open" THEN detected ELSE None

PortIndex(port) == CHOOSE i \in DOMAIN PortPool : PortPool[i] = port

DetectServices(port_results, w, h) ==
    [k \in DOMAIN port_results |->
        [port_results[k] EXCEPT !.service_detected =
            ServiceFor(port_results[k].status,
                       DetectorAnswer(w, h, PortIndex(port_results[k].port)))]]

RECURSIVE SumTimes(_, _)
SumTimes(port_results, k) ==
    IF k = 0 THEN 0
    ELSE SumTimes(port_results, k - 1)
         + (IF port_results[k].response_time = NoTime THEN 0
            ELSE port_results[k].response_time[1])

\* Collect learning data for adaptive optimization.
LearningData(target_ip, port_results, params) ==
    LET response_count == Cardinality({k \in DOMAIN port_results :
                                          port_results[k].response_time # NoTime})
        timeout_count == Cardinality({k \in DOMAIN port_results :
                                         port_results[k].response_time = NoTime})
        total_response_time == SumTimes(port_results, Len(port_results))
    IN  [target |-> target_ip,
         network_type |-> classify_network(target_ip),
         port_results |->
            [k \in DOMAIN port_results |->
                [port |-> port_results[k].port,
                 is_open |-> (port_results[k].status = "Open"),
                 is_filtered |-> (port_results[k].status = "Filtered"),
                 response_time |-> port_results[k].response_time,
                 service_detected |-> port_results[k].service_detected]],
         total_response_time |-> total_response_time,
         response_count |-> response_count,
         avg_response_time |-> IF response_count > 0
                               THEN total_response_time \div response_count
                               ELSE params.timeout,
         timeout_count |-> timeout_count,
         outcome_count |-> Len(port_results),
         parallelism_used |-> params.parallelism,
         rate_limit_used |-> params.rate_limit]

\* target_ip.to_string(): the textual form of an address.
IpText(ip) == [text_of |-> ip]

MkScanResult(target_ip, port_results) ==
    [target |-> IpText(target_ip), target_ip |-> target_ip, ports |-> port_results]

\* Variant: total_ports taken from total_operations.
MkMultiHostScanResultTotalOps(host_results, ports, kind) ==
    [scan_type |-> kind, total_hosts |-> Len(host_results),
     total_ports |-> Len(host_results) * Len(ports), hosts |-> host_results]

MkMultiHostScanResult(host_results, ports, kind) ==
    [scan_type |-> kind, total_hosts |-> Len(host_results), total_ports |-> Len(ports),
     hosts |-> host_results]

\* Variant: the port expansion's failure is not propagated.
ExpansionErrorTargetsOnly(tgts, ports) ==
    IF tgts = ParseError THEN "TargetError" ELSE None

\* `?` on parse_targets, then on parse_ports: the first failure is returned.
ExpansionError(tgts, ports) ==
    IF tgts = ParseError THEN "TargetError"
    ELSE IF ports = ParseError THEN "PortError"
    ELSE None

(***************************************************************************)
(* OutputWriter::format_csv (src/src/output.rs): the lines of the CSV      *)
(* report, a line being the sequence of its comma-separated fields.        *)
(***************************************************************************)
CsvHeader == <<"target", "target_ip", "port", "status", "scan_type">>

CsvRow(r, host, port) ==
    <<host.target, IpText(host.target_ip), port.port, port.status, r.scan_type>>

\* Variant: rows for the open ports only.
CsvHostRowsOpenOnly(r, host) ==
    LET IsOpen(port) == port.status = "Open"
        open == SelectSeq(host.ports, IsOpen)
    IN  [k \in DOMAIN open |-> CsvRow(r, host, open[k])]

\* The inner loop: one row per port result of the host.
CsvHostRows(r, host) == [k \in DOMAIN host.ports |-> CsvRow(r, host, host.ports[k])]

RECURSIVE CsvRows(_, _)
CsvRows(r, h) ==
    IF h = 0 THEN <<>> ELSE CsvRows(r, h - 1) \o CsvHostRows(r, r.hosts[h])

format_csv(r) == <<CsvHeader>> \o CsvRows(r, Len(r.hosts))

Err(e) == [err |-> e]

IsErr(r) == r # NoResult /\ "err" \in DOMAIN r

IsOutput(r) == r # NoResult

(***************************************************************************)
(* Calls on the components and what they return.                           *)
(***************************************************************************)
\* Result::Ok(v); Ok(()) is Ok(Unit).
Ok(v) == [ok |-> v]

Unit == "()"

\* Option: no value, or one value.
NoValue == <<>>

Some(v) == <<v>>

\* No call has returned yet.
NoCall == [call |-> "none"]

Call(name, args, value) == [call |-> name, args |-> args, value |-> value]

(***************************************************************************)
(* Config (src/src/config.rs).  An f64 is a decimal number in tenths, or   *)
(* NaN; an ordered comparison with NaN is false (IEEE 754).                *)
(***************************************************************************)
Num(tenths) == [nan |-> FALSE, tenths |-> tenths]

NaN == [nan |-> TRUE, tenths |-> 0]

F64Le(a, b) == ~a.nan /\ ~b.nan /\ a.tenths <= b.tenths

F64Ge(a, b) == ~a.nan /\ ~b.nan /\ a.tenths >= b.tenths

\* Config::default(), the fields that validate and the getters read.
DefaultConfig ==
    [scanning |-> [default_timeout |-> 1000, default_rate_limit |-> 50,
                   default_parallelism |-> DefaultParallelism],
     adaptive |-> [enabled |-> TRUE, learning_rate |-> Num(1)],
     output |-> [default_format |-> "human"]]

\* The Config values explored: every field is public and deserialized.
Configs ==
    [scanning : [default_timeout : {0, 1000}, default_rate_limit : {50},
                 default_parallelism : {0, DefaultParallelism}],
     adaptive : [enabled : BOOLEAN,
                 learning_rate : {NaN, Num(-1), Num(0), Num(1), Num(9), Num(10), Num(11)}],
     output : [default_format : {"human", "json", "xml", "csv", "yaml"}]]

\* The adaptive values a caller may pass to the getters.
AdaptiveValues == {NoValue, Some(0), Some(500)}

validate(c) ==
    IF c.scanning.default_timeout = 0
    THEN Err("default_timeout must be greater than 0")
    ELSE IF c.scanning.default_parallelism = 0
    THEN Err("default_parallelism must be greater than 0")
    ELSE IF F64Le(c.adaptive.learning_rate, Num(0)) \/ F64Ge(c.adaptive.learning_rate, Num(10))
    THEN Err("learning_rate must be between 0 and 1")
    ELSE IF c.output.default_format \notin {"human", "json", "xml", "csv"}
    THEN Err("default_format must be one of: human, json, xml, csv")
    ELSE Ok(Unit)

\* Option::unwrap_or
unwrap_or(opt, default) == IF opt = NoValue THEN default ELSE opt[1]

\* Variant: the adaptive value is used whether or not learning is enabled.
get_effective_timeoutAlways(c, adaptive_timeout) ==
    unwrap_or(adaptive_timeout, c.scanning.default_timeout)

get_effective_timeout(c, adaptive_timeout) ==
    IF c.adaptive.enabled
    THEN unwrap_or(adaptive_timeout, c.scanning.default_timeout)
    ELSE c.scanning.default_timeout

get_effective_rate_limit(c, adaptive_rate_limit) ==
    IF c.adaptive.enabled
    THEN unwrap_or(adaptive_rate_limit, c.scanning.default_rate_limit)
    ELSE c.scanning.default_rate_limit

get_effective_parallelism(c, adaptive_parallelism) ==
    IF c.adaptive.enabled
    THEN unwrap_or(adaptive_parallelism, c.scanning.default_parallelism)
    ELSE c.scanning.default_parallelism

(***************************************************************************)
(* PluginManager (src/src/plugins/manager.rs).  A plugin map is the set of *)
(* its keys, the plugin stored under a key being the one of that name;     *)
(* plugin_configs maps every name to the Option that get(name) returns.    *)
(***************************************************************************)
\* The plugin names explored, in ascending order of String::cmp.
PluginNames == <<"human_output", "json_output", "tcp_connect">>

Names == {PluginNames[i] : i \in DOMAIN PluginNames}

Rank(name) == CHOOSE i \in DOMAIN PluginNames : PluginNames[i] = name

\* The plugins explored, by what name() returns: the built-in scanner and
\* output plugins, and a service plugin that is also called tcp_connect.
ScannerPluginNames == {"tcp_connect"}

OutputPluginNames == {"human_output", "json_output"}

ServicePluginNames == {"tcp_connect"}

\* PluginConfig::default()
DefaultPluginConfig == [settings |-> {}, enabled |-> TRUE, priority |-> 100]

CustomPluginConfig ==
    [settings |-> {<<"timeout", 1000>>}, enabled |-> FALSE, priority |-> 10]

PluginConfigs == {DefaultPluginConfig, CustomPluginConfig}

\* PluginManager::new()
NewManager ==
    [scanner_plugins |-> {}, output_plugins |-> {}, service_plugins |-> {},
     plugin_configs |-> [n \in Names |-> NoValue]]

register_scanner_plugin(m, name, cfg) ==
    [m EXCEPT !.scanner_plugins = @ \cup {name}, !.plugin_configs[name] = Some(cfg)]

register_output_plugin(m, name, cfg) ==
    [m EXCEPT !.output_plugins = @ \cup {name}, !.plugin_configs[name] = Some(cfg)]

register_service_plugin(m, name, cfg) ==
    [m EXCEPT !.service_plugins = @ \cup {name}, !.plugin_configs[name] = Some(cfg)]

\* HashMap::keys(): the keys, in some order.
RECURSIVE Keys(_)
Keys(S) ==
    IF S = {} THEN <<>>
    ELSE LET x == CHOOSE y \in S : TRUE IN <<x>> \o Keys(S \ {x})

InsertSorted(x, sorted) ==
    LET k == Cardinality({i \in DOMAIN sorted : Rank(sorted[i]) <= Rank(x)})
    IN  SubSeq(sorted, 1, k) \o <<x>> \o SubSeq(sorted, k + 1, Len(sorted))

\* Vec::sort()
RECURSIVE Sort(_)
Sort(seq) == IF seq = <<>> THEN <<>> ELSE InsertSorted(Head(seq), Sort(Tail(seq)))

list_plugins(m) ==
    Sort(Keys(m.scanner_plugins) \o Keys(m.output_plugins) \o Keys(m.service_plugins))

update_plugin_config(m, name, cfg) == [m EXCEPT !.plugin_configs[name] = Some(cfg)]

NotFound(name) == <<"NotFound", name>>

\* Variant: a missing configuration is created, enabled.
enable_pluginOrInsert(m, name) ==
    IF m.plugin_configs[name] # NoValue
    THEN [manager |-> [m EXCEPT !.plugin_configs[name] = Some([@[1] EXCEPT !.enabled = TRUE])],
          value |-> Ok(Unit)]
    ELSE [manager |-> [m EXCEPT !.plugin_configs[name] = Some(DefaultPluginConfig)],
          value |-> Ok(Unit)]

\* The manager after the call, and what the call returns.
enable_plugin(m, name) ==
    IF m.plugin_configs[name] # NoValue
    THEN [manager |-> [m EXCEPT !.plugin_configs[name] = Some([@[1] EXCEPT !.enabled = TRUE])],
          value |-> Ok(Unit)]
    ELSE [manager |-> m, value |-> Err(NotFound(name))]

disable_plugin(m, name) ==
    IF m.plugin_configs[name] # NoValue
    THEN [manager |-> [m EXCEPT !.plugin_configs[name] = Some([@[1] EXCEPT !.enabled = FALSE])],
          value |-> Ok(Unit)]
    ELSE [manager |-> m, value |-> Err(NotFound(name))]

is_plugin_enabled(m, name) ==
    IF m.plugin_configs[name] = NoValue THEN FALSE ELSE m.plugin_configs[name][1].enabled

load_builtin_plugins(m) ==
    register_output_plugin(
        register_output_plugin(
            register_scanner_plugin(m, "tcp_connect", DefaultPluginConfig),
            "human_output", DefaultPluginConfig),
        "json_output", DefaultPluginConfig)

(***************************************************************************)
(* The built-in service plugins (src/src/plugins/builtin.rs).  What the    *)
(* one read returns is a sequence of lines, a line a sequence of tokens:   *)
(* words, ":" and " " (one whitespace character).                          *)
(***************************************************************************)
StatusLine == <<"HTTP/", "1.1", " ", "200", " ", "OK">>

ServerLine == <<"Server", ":", " ", "nginx", ":", "1.18", " ">>

ServerUpperLine == <<"SERVER", ":", "apache">>

ContentTypeLine == <<"Content-Type", ":", " ", "text/html">>

BodyServerLine == <<"server", ":", " ", "down">>

SshBanner == <<"SSH-", "2.0-OpenSSH_8.9", " ", "Ubuntu">>

\* What a peer may send as its first chunk; <<>> is end of file.
Responses ==
    { <<>>,
      <<StatusLine>>,
      <<StatusLine, ServerLine, ContentTypeLine, <<>>, BodyServerLine>>,
      <<StatusLine, ContentTypeLine, ServerUpperLine, ServerLine>>,
      <<StatusLine, ContentTypeLine, <<>>, BodyServerLine>>,
      <<SshBanner>>,
      <<<<"220", " ", "ftp">>>>,
      <<ServerLine, StatusLine>>,
      <<<<" ", "HTTP/", "1.1">>>>,
      <<<<>>, StatusLine>> }

\* str::starts_with(prefix), for a prefix that is one token.
starts_with(lines, prefix) ==
    lines # <<>> /\ lines[1] # <<>> /\ lines[1][1] = prefix

\* str::to_lowercase, on a token.
to_lowercase(token) == IF token \in {"Server", "SERVER"} THEN "server" ELSE token

\* line.to_lowercase().starts_with("server:")
IsServerLine(line) == Len(line) >= 2 /\ to_lowercase(line[1]) = "server" /\ line[2] = ":"

\* line.splitn(2, ':').nth(1).unwrap_or("")
AfterFirstColon(line) ==
    LET colons == {k \in DOMAIN line : line[k] = ":"} IN
    IF colons = {} THEN <<>>
    ELSE SubSeq(line, (CHOOSE k \in colons : \A l \in colons : k <= l) + 1, Len(line))

\* Variant: the value is taken as it stands.
trimNothing(text) == text

\* str::trim()
trim(text) ==
    LET inner == {k \in DOMAIN text : text[k] # " "} IN
    IF inner = {} THEN <<>>
    ELSE SubSeq(text, CHOOSE k \in inner : \A l \in inner : k <= l,
                      CHOOSE k \in inner : \A l \in inner : k >= l)

\* line.split_whitespace().nth(0)
FirstWord(line) ==
    LET start == trim(line)
        spaces == {k \in DOMAIN start : start[k] = " "}
    IN  IF start = <<>> THEN NoValue
        ELSE IF spaces = {} THEN Some(start)
        ELSE Some(SubSeq(start, 1, (CHOOSE k \in spaces : \A l \in spaces : k <= l) - 1))

\* What HttpServicePlugin makes of the response it read.
HttpService(response) ==
    IF starts_with(response, "HTTP/")
    THEN LET servers == {k \in DOMAIN response : IsServerLine(response[k])} IN
         Some([name |-> "HTTP",
               version |-> NoValue,
               banner |-> Some(response[1]),
               confidence |-> 90,
               additional_info |->
                  IF servers = {} THEN {}
                  ELSE LET line == response[CHOOSE k \in servers : \A l \in servers : k <= l]
                       IN  {<<"server", trim(AfterFirstColon(line))>>}])
    ELSE NoValue

\* What SshServicePlugin makes of the banner it read.
SshService(banner) ==
    IF starts_with(banner, "SSH-")
    THEN Some([name |-> "SSH",
               version |-> FirstWord(banner[1]),
               banner |-> Some(banner[1]),
               confidence |-> 95,
               additional_info |-> {}])
    ELSE NoValue

\* What the peer of a detect_service call does.
Peers ==
    [connect : {"refused", "timeout", "accepted"},
     write : {"ok", "fail"},
     read : {"data", "error", "silent"},
     response : Responses]

\* No detect_service call is under way.
NoDetect ==
    [plugin |-> "http_service",
     peer |-> [connect |-> "refused", write |-> "ok", read |-> "data", response |-> <<>>],
     stage |-> "idle", value |-> NoCall]

(***************************************************************************)
(* Initial state: a constructed Scanner and a first scan request.          *)
(***************************************************************************)
NoTasks ==
    /\ hostPermits = 0
    /\ hpc = <<>>
    /\ hal = <<>>
    /\ eff = <<>>
    /\ portPermits = <<>>
    /\ ppc = <<>>
    /\ captured = <<>>
    /\ pstatus = <<>>
    /\ outs = <<>>
    /\ hostOuts = <<>>
    /\ pb = 0
    /\ probeFn = <<>>
    /\ learned = <<>>
    /\ portOvertook = FALSE
    /\ hostOvertook = FALSE

\* A first scan request, nothing spawned yet.
InitRequest ==
    /\ world \in Worlds
    /\ reqTargets \in TargetLists \cup {ParseError}
    /\ reqPorts \in PortLists \cup {ParseError}
    /\ phase = "idle"
    /\ result = NoResult
    /\ output = <<>>
    /\ NoTasks
    /\ config = DefaultConfig
    /\ manager = NewManager
    /\ det = NoDetect
    /\ ret = NoCall

\* A connect scan, which needs no privilege.
Init ==
    /\ scanner \in [rate_limit : {0, DefaultRateLimit},
                    timeout : {DefaultTimeout},
                    parallel_hosts : ParallelHostsChoices,
                    adaptive_learning : AdaptiveStates]
    /\ scan_type = "Connect"
    /\ privileged = FALSE
    /\ InitRequest

\* Every scan kind, with and without privilege, on a scanner with the CLI's
\* default pacing and timeout that scans one host at a time.
InitKinds ==
    /\ scanner \in [rate_limit : {DefaultRateLimit},
                    timeout : {DefaultTimeout},
                    parallel_hosts : {1},
                    adaptive_learning : {[c \in NetworkClass |-> ColdProfile]}]
    /\ scan_type \in ScanTypes
    /\ privileged \in BOOLEAN
    /\ InitRequest

(***************************************************************************)
(* Scanner::scan up to its only suspension point, join_all(host_tasks).    *)
(***************************************************************************)
ScanStart ==
    /\ phase = "idle"
    /\ IF ExpansionError(reqTargets, reqPorts) # None
       THEN /\ phase' = "failed"
            /\ result' = Err(ExpansionError(reqTargets, reqPorts))
            /\ UNCHANGED taskVars
       ELSE /\ phase' = "joining"
            /\ result' = NoResult
            /\ hostPermits' = scanner.parallel_hosts
            /\ hpc' = [h \in DOMAIN targets |-> "waiting"]
            /\ hal' = [h \in DOMAIN targets |-> scanner.adaptive_learning]
            /\ eff' = [h \in DOMAIN targets |-> NoResult]
            /\ portPermits' = [h \in DOMAIN targets |-> 0]
            /\ ppc' = [h \in DOMAIN targets |-> <<>>]
            /\ captured' = [h \in DOMAIN targets |-> <<>>]
            /\ pstatus' = [h \in DOMAIN targets |-> <<>>]
            /\ outs' = [h \in DOMAIN targets |-> <<>>]
            /\ hostOuts' = [h \in DOMAIN targets |-> NoResult]
            /\ pb' = 0
            /\ probeFn' = [h \in DOMAIN targets |-> <<>>]
            /\ learned' = [h \in DOMAIN targets |-> NoResult]
            /\ UNCHANGED <<portOvertook, hostOvertook>>
    /\ UNCHANGED <<callVars, output>>

(***************************************************************************)
(* A host task: acquire the host permit, then scan_single_host up to       *)
(* join_all(tasks): derive the parameters and spawn the port tasks.        *)
(***************************************************************************)
HostAcquire(h) ==
    /\ hpc[h] = "waiting"
    /\ Acquirable(hostPermits)
    /\ hostPermits' = hostPermits - 1
    /\ LET params == EffectiveParams(
                        [rate_limit |-> scanner.rate_limit, timeout |-> scanner.timeout,
                         parallel_hosts |-> scanner.parallel_hosts],
                        get_optimal_params(hal[h], targets[h]))
       IN  /\ eff' = [eff EXCEPT ![h] = params]
           /\ portPermits' = [portPermits EXCEPT ![h] = params.parallelism]
           /\ captured' = [captured EXCEPT ![h] =
                             [i \in DOMAIN port_list |->
                                [timeout |-> params.timeout,
                                 rate_limit |-> params.rate_limit]]]
    /\ ppc' = [ppc EXCEPT ![h] = [i \in DOMAIN port_list |-> "waiting"]]
    /\ pstatus' = [pstatus EXCEPT ![h] = [i \in DOMAIN port_list |-> None]]
    /\ probeFn' = [probeFn EXCEPT ![h] = [i \in DOMAIN port_list |-> None]]
    /\ outs' = [outs EXCEPT ![h] = [i \in DOMAIN port_list |-> NoResult]]
    /\ hpc' = [hpc EXCEPT ![h] = "scanning"]
    /\ UNCHANGED <<compVars, scanner, world, reqTargets, reqPorts, scan_type, privileged, output,
                   phase, result, hal, hostOuts, pb, learned,
                   portOvertook, hostOvertook>>

(***************************************************************************)
(* A port task.                                                            *)
(***************************************************************************)
PortAcquire(h, i) ==
    /\ ppc[h][i] = "waiting"
    /\ Acquirable(portPermits[h])
    /\ portPermits' = [portPermits EXCEPT ![h] = @ - 1]
    /\ ppc' = [ppc EXCEPT ![h][i] = "probing"]
    /\ probeFn' = [probeFn EXCEPT ![h][i] = ProbeFor(scan_type, targets[h])]
    /\ UNCHANGED <<compVars, scanner, world, reqTargets, reqPorts, scan_type, privileged, output,
                   phase, result, hostPermits, hpc,
                   hal, eff, captured, pstatus, outs, hostOuts, pb, learned,
                   portOvertook, hostOvertook>>

\* The task ends: its output becomes available and its permit is dropped.
PortTaskEnd(h, i, status) ==
    /\ outs' = [outs EXCEPT ![h] =
                  StoreOutput(@, i,
                     IF ProbeFailsTask(status) THEN Err("JoinError")
                     ELSE MkPortResult(port_list[i], status,
                                       ProbeElapsed(status, captured[h][i].timeout)))]
    /\ portPermits' = [portPermits EXCEPT ![h] = @ + 1]
    /\ ppc' = [ppc EXCEPT ![h][i] = "done"]
    /\ portOvertook' = (portOvertook \/ \E j \in 1 .. i - 1 : ppc[h][j] # "done")

\* The probe returns; pb.inc(1); then the pacing sleep, if any.
PortProbeDone(h, i) ==
    /\ ppc[h][i] = "probing"
    /\ LET status == ProbeStatus(scan_type, privileged, world, h, i) IN
        /\ pstatus' = [pstatus EXCEPT ![h][i] = status]
        /\ IF ProbeFailsTask(status)
           THEN pb' = pb /\ PortTaskEnd(h, i, status)
           ELSE /\ pb' = PbInc(pb)
                /\ IF Paces(captured[h][i].rate_limit)
                   THEN /\ ppc' = [ppc EXCEPT ![h][i] = "sleeping"]
                        /\ UNCHANGED <<outs, portPermits, portOvertook>>
                   ELSE PortTaskEnd(h, i, status)
    /\ UNCHANGED <<compVars, scanner, world, reqTargets, reqPorts, scan_type, privileged, output,
                   phase, result, hostPermits, hpc,
                   hal, eff, captured, hostOuts, probeFn, learned, hostOvertook>>

PortSleepDone(h, i) ==
    /\ ppc[h][i] = "sleeping"
    /\ PortTaskEnd(h, i, pstatus[h][i])
    /\ UNCHANGED <<compVars, scanner, world, reqTargets, reqPorts, scan_type, privileged, output,
                   phase, result, hostPermits, hpc,
                   hal, eff, captured, pstatus, hostOuts, pb, probeFn, learned,
                   hostOvertook>>

(***************************************************************************)
(* scan_single_host after join_all(tasks): service detection, telemetry,   *)
(* learn_from_scan, the host result; then the host permit is dropped.      *)
(***************************************************************************)
HostFinish(h) ==
    /\ hpc[h] = "scanning"
    /\ JoinAll(ppc[h])
    /\ IF \E k \in DOMAIN outs[h] : IsErr(outs[h][k])
       THEN /\ hostOuts' = StoreOutput(hostOuts, h, Err("JoinError"))
            /\ hal' = hal
            /\ learned' = learned
       ELSE LET port_results == DetectServices(SelectSeq(outs[h], IsOutput), world, h)
                data == LearningData(targets[h], port_results, eff[h])
            IN  /\ hal' = [hal EXCEPT ![h] = learn_from_scan(@, data)]
                /\ learned' = [learned EXCEPT ![h] = data]
                /\ hostOuts' = StoreOutput(hostOuts, h,
                                           MkScanResult(targets[h], port_results))
    /\ hpc' = [hpc EXCEPT ![h] = "done"]
    /\ hostPermits' = hostPermits + 1
    /\ hostOvertook' = (hostOvertook \/ \E g \in 1 .. h - 1 : hpc[g] # "done")
    /\ UNCHANGED <<compVars, scanner, world, reqTargets, reqPorts, scan_type, privileged, output,
                   phase, result, eff, portPermits,
                   ppc, captured, pstatus, outs, pb, probeFn, portOvertook>>

(***************************************************************************)
(* Scanner::scan after join_all(host_tasks).                               *)
(***************************************************************************)
ScanJoin ==
    /\ phase = "joining"
    /\ JoinAll(hpc)
    /\ IF \E h \in Hosts : IsErr(hostOuts[h])
       THEN phase' = "failed" /\ result' = Err("JoinError")
       ELSE /\ phase' = "returned"
            /\ result' = MkMultiHostScanResult(hostOuts, port_list, scan_type)
    /\ UNCHANGED <<callVars, output>>
    /\ UNCHANGED taskVars

\* The caller drops the future returned by scan while it awaits join_all.
\* The JoinHandles are dropped with it; tokio::spawn'ed tasks are detached.
DropScan ==
    /\ phase = "joining"
    /\ phase' = "dropped"
    /\ UNCHANGED <<compVars, scanner, world, reqTargets, reqPorts, scan_type, privileged, output,
                   result>>
    /\ UNCHANGED taskVars

\* main hands the returned result to OutputWriter::write; the format is Csv.
WriteCsv ==
    /\ phase = "returned"
    /\ output = <<>>
    /\ output' = format_csv(result)
    /\ UNCHANGED <<callVars, phase, result>>
    /\ UNCHANGED taskVars

\* A later scan call on the same Scanner.
ScanAgain ==
    /\ phase \in {"returned", "failed"}
    /\ phase' = "idle"
    /\ result' = NoResult
    /\ world' \in Worlds
    /\ reqTargets' \in TargetLists \cup {ParseError}
    /\ reqPorts' \in PortLists \cup {ParseError}
    /\ hostPermits' = 0
    /\ hpc' = <<>>
    /\ hal' = <<>>
    /\ eff' = <<>>
    /\ portPermits' = <<>>
    /\ ppc' = <<>>
    /\ captured' = <<>>
    /\ pstatus' = <<>>
    /\ outs' = <<>>
    /\ hostOuts' = <<>>
    /\ pb' = 0
    /\ probeFn' = <<>>
    /\ learned' = <<>>
    /\ output' = <<>>
    /\ portOvertook' = FALSE
    /\ hostOvertook' = FALSE
    /\ UNCHANGED <<scanner, scan_type, privileged, compVars>>

Next ==
    \/ ScanStart
    \/ \E h \in Hosts : HostAcquire(h)
    \/ \E h \in Hosts : \E i \in PortsOf(h) : PortAcquire(h, i)
    \/ \E h \in Hosts : \E i \in PortsOf(h) : PortProbeDone(h, i)
    \/ \E h \in Hosts : \E i \in PortsOf(h) : PortSleepDone(h, i)
    \/ \E h \in Hosts : HostFinish(h)
    \/ ScanJoin
    \/ DropScan
    \/ WriteCsv
    \/ ScanAgain

Spec == Init /\ [][Next]_vars

SpecKinds == InitKinds /\ [][Next]_vars

(***************************************************************************)
(* The runtime runs a task that is ready: as long as the scan call or one  *)
(* of its tasks can make a step, one of them does.  The caller's own       *)
(* choices (dropping the future, writing the result, calling scan again)   *)
(* are not forced.                                                         *)
(***************************************************************************)
TaskStep ==
    \/ ScanStart
    \/ \E h \in Hosts : HostAcquire(h)
    \/ \E h \in Hosts : \E i \in PortsOf(h) : PortAcquire(h, i)
    \/ \E h \in Hosts : \E i \in PortsOf(h) : PortProbeDone(h, i)
    \/ \E h \in Hosts : \E i \in PortsOf(h) : PortSleepDone(h, i)
    \/ \E h \in Hosts : HostFinish(h)
    \/ ScanJoin

Fairness == WF_vars(TaskStep)

SpecFair == Init /\ [][Next]_vars /\ Fairness

(***************************************************************************)
(* The components on their own: the scan is idle and stays so.             *)
(***************************************************************************)
ScanIdle ==
    /\ scanner = [rate_limit |-> DefaultRateLimit, timeout |-> DefaultTimeout,
                  parallel_hosts |-> 1,
                  adaptive_learning |-> [c \in NetworkClass |-> ColdProfile]]
    /\ scan_type = "Connect"
    /\ privileged = FALSE
    /\ world = 0
    /\ reqTargets = Parsed(<<>>)
    /\ reqPorts = Parsed(SubSeq(PortPool, 1, 1))
    /\ phase = "idle"
    /\ result = NoResult
    /\ output = <<>>
    /\ NoTasks

(***************************************************************************)
(* Config: validate and the three getters, on any Config value.            *)
(***************************************************************************)
InitConfig ==
    /\ ScanIdle
    /\ config \in Configs
    /\ manager = NewManager
    /\ det = NoDetect
    /\ ret = NoCall

Validate ==
    /\ ret' = Call("validate", NoValue, validate(config))
    /\ UNCHANGED <<config, manager, det, scanVars>>

GetEffectiveTimeout(adaptive) ==
    /\ ret' = Call("get_effective_timeout", adaptive, get_effective_timeout(config, adaptive))
    /\ UNCHANGED <<config, manager, det, scanVars>>

GetEffectiveRateLimit(adaptive) ==
    /\ ret' = Call("get_effective_rate_limit", adaptive,
                   get_effective_rate_limit(config, adaptive))
    /\ UNCHANGED <<config, manager, det, scanVars>>

GetEffectiveParallelism(adaptive) ==
    /\ ret' = Call("get_effective_parallelism", adaptive,
                   get_effective_parallelism(config, adaptive))
    /\ UNCHANGED <<config, manager, det, scanVars>>

NextConfig ==
    \/ Validate
    \/ \E adaptive \in AdaptiveValues : GetEffectiveTimeout(adaptive)
    \/ \E adaptive \in AdaptiveValues : GetEffectiveRateLimit(adaptive)
    \/ \E adaptive \in AdaptiveValues : GetEffectiveParallelism(adaptive)

SpecConfig == InitConfig /\ [][NextConfig]_vars

(***************************************************************************)
(* PluginManager: any sequence of its operations on a new manager.         *)
(***************************************************************************)
InitPlugins ==
    /\ ScanIdle
    /\ config = DefaultConfig
    /\ manager = NewManager
    /\ det = NoDetect
    /\ ret = NoCall

RegisterScannerPlugin(name, cfg) ==
    /\ manager' = register_scanner_plugin(manager, name, cfg)
    /\ ret' = Call("register_scanner_plugin", name, Ok(Unit))
    /\ UNCHANGED <<config, det, scanVars>>

RegisterOutputPlugin(name, cfg) ==
    /\ manager' = register_output_plugin(manager, name, cfg)
    /\ ret' = Call("register_output_plugin", name, Ok(Unit))
    /\ UNCHANGED <<config, det, scanVars>>

RegisterServicePlugin(name, cfg) ==
    /\ manager' = register_service_plugin(manager, name, cfg)
    /\ ret' = Call("register_service_plugin", name, Ok(Unit))
    /\ UNCHANGED <<config, det, scanVars>>

UpdatePluginConfig(name, cfg) ==
    /\ manager' = update_plugin_config(manager, name, cfg)
    /\ ret' = Call("update_plugin_config", name, Unit)
    /\ UNCHANGED <<config, det, scanVars>>

EnablePlugin(name) ==
    /\ manager' = enable_plugin(manager, name).manager
    /\ ret' = Call("enable_plugin", name, enable_plugin(manager, name).value)
    /\ UNCHANGED <<config, det, scanVars>>

DisablePlugin(name) ==
    /\ manager' = disable_plugin(manager, name).manager
    /\ ret' = Call("disable_plugin", name, disable_plugin(manager, name).value)
    /\ UNCHANGED <<config, det, scanVars>>

IsPluginEnabled(name) ==
    /\ ret' = Call("is_plugin_enabled", name, is_plugin_enabled(manager, name))
    /\ UNCHANGED <<manager, config, det, scanVars>>

ListPlugins ==
    /\ ret' = Call("list_plugins", NoValue, list_plugins(manager))
    /\ UNCHANGED <<manager, config, det, scanVars>>

LoadBuiltinPlugins ==
    /\ manager' = load_builtin_plugins(manager)
    /\ ret' = Call("load_builtin_plugins", NoValue, Ok(Unit))
    /\ UNCHANGED <<config, det, scanVars>>

NextPlugins ==
    \/ \E name \in ScannerPluginNames : \E cfg \in PluginConfigs :
          RegisterScannerPlugin(name, cfg)
    \/ \E name \in OutputPluginNames : \E cfg \in PluginConfigs :
          RegisterOutputPlugin(name, cfg)
    \/ \E name \in ServicePluginNames : \E cfg \in PluginConfigs :
          RegisterServicePlugin(name, cfg)
    \/ \E name \in Names : \E cfg \in PluginConfigs : UpdatePluginConfig(name, cfg)
    \/ \E name \in Names : EnablePlugin(name)
    \/ \E name \in Names : DisablePlugin(name)
    \/ \E name \in Names : IsPluginEnabled(name)
    \/ ListPlugins
    \/ LoadBuiltinPlugins

SpecPlugins == InitPlugins /\ [][NextPlugins]_vars

(***************************************************************************)
(* One detect_service call of HttpServicePlugin or SshServicePlugin        *)
(* against a peer.  Every await of the call is a step; the connect is      *)
(* under timeout(..), the write and the read are not.                      *)
(***************************************************************************)
InitDetect ==
    /\ ScanIdle
    /\ config = DefaultConfig
    /\ manager = NewManager
    /\ ret = NoCall
    /\ det \in [plugin : {"http_service", "ssh_service"}, peer : Peers,
                 stage : {"idle"}, value : {NoCall}]

DetectReturn(value) == det' = [det EXCEPT !.stage = "returned", !.value = value]

DetectStart ==
    /\ det.stage = "idle"
    /\ det' = [det EXCEPT !.stage = "connecting"]
    /\ UNCHANGED <<config, manager, ret, scanVars>>

\* timeout(timeout_duration, TcpStream::connect(..)) completes or elapses.
ConnectDone ==
    /\ det.stage = "connecting"
    /\ IF det.peer.connect = "accepted"
       THEN det' = [det EXCEPT !.stage = IF det.plugin = "http_service" THEN "writing"
                                         ELSE "reading"]
       ELSE DetectReturn(Ok(NoValue))
    /\ UNCHANGED <<config, manager, ret, scanVars>>

\* stream.write_all(request) completes.
WriteDone ==
    /\ det.stage = "writing"
    /\ IF det.peer.write = "ok"
       THEN det' = [det EXCEPT !.stage = "reading"]
       ELSE DetectReturn(Ok(NoValue))
    /\ UNCHANGED <<config, manager, ret, scanVars>>

\* stream.read(&mut buffer) completes: with bytes, end of file, or an error.
\* It does not complete while the peer sends nothing and keeps the
\* connection open.
ReadDone ==
    /\ det.stage = "reading"
    /\ det.peer.read # "silent"
    /\ IF det.peer.read = "data"
       THEN DetectReturn(Ok(IF det.plugin = "http_service"
                            THEN HttpService(det.peer.response)
                            ELSE SshService(det.peer.response)))
       ELSE DetectReturn(Ok(NoValue))
    /\ UNCHANGED <<config, manager, ret, scanVars>>

NextDetect ==
    \/ DetectStart
    \/ ConnectDone
    \/ WriteDone
    \/ ReadDone

\* The runtime resumes the call whenever its pending await can complete.
SpecDetect == InitDetect /\ [][NextDetect]_vars /\ WF_vars(NextDetect)

(***************************************************************************)
(* Properties.                                                             *)
(***************************************************************************)
ActiveHosts == {h \in Hosts : hpc[h] = "scanning"}

InFlight(h) == {i \in PortsOf(h) : ppc[h][i] \in {"probing", "sleeping"}}

Returned == phase = "returned"

ExpansionFails == reqTargets = ParseError \/ reqPorts = ParseError

StrictlyAscending(ports) ==
    \A k \in DOMAIN ports : \A l \in DOMAIN ports : k < l => ports[k].port < ports[l].port

\* C1: in every reachable state at most parallel_hosts hosts are being scanned,
\* and within each host at most its effective parallelism port tasks are
\* between acquiring and releasing their permit (probe plus pacing sleep).
C1_ConcurrencyBounded ==
    /\ Cardinality(ActiveHosts) <= scanner.parallel_hosts
    /\ \A h \in Hosts :
          hpc[h] # "waiting" => Cardinality(InFlight(h)) <= eff[h].parallelism

C1_Witness ==
    /\ Cardinality(ActiveHosts) = scanner.parallel_hosts
    /\ \E h \in Hosts : hpc[h] = "waiting"
    /\ \E h \in ActiveHosts :
          /\ Cardinality(InFlight(h)) = eff[h].parallelism
          /\ \E i \in PortsOf(h) : ppc[h][i] = "waiting"
          /\ \E i \in PortsOf(h) : ppc[h][i] = "sleeping"

\* C2: in every host result returned by scan the ports sequence is strictly
\* ascending by port number and holds each expanded port exactly once, in
\* whatever order the host's port tasks completed.
C2_PortsAscendingOnce ==
    Returned =>
        \A h \in DOMAIN result.hosts :
            LET ports == result.hosts[h].ports IN
            /\ StrictlyAscending(ports)
            /\ \A k \in DOMAIN port_list :
                  Cardinality({l \in DOMAIN ports : ports[l].port = port_list[k]}) = 1

C2_Witness ==
    /\ Returned
    /\ portOvertook
    /\ \E h \in DOMAIN result.hosts : Len(result.hosts[h].ports) >= 2

\* C3: the hosts of the returned MultiHostScanResult are in the order of the
\* expanded target list, in whatever order the host tasks got the semaphore
\* or finished.
C3_HostsInTargetOrder ==
    Returned =>
        /\ DOMAIN result.hosts = DOMAIN targets
        /\ \A h \in DOMAIN targets : result.hosts[h].target_ip = targets[h]

C3_Witness ==
    /\ Returned
    /\ hostOvertook
    /\ Len(result.hosts) >= 2

\* C4: a returned result has as many host results as expanded targets, which
\* is total_hosts; every host result has one PortResult per expanded port; and
\* total_ports is the number of expanded ports.
C4_ResultCounts ==
    Returned =>
        /\ Len(result.hosts) = Len(targets)
        /\ result.total_hosts = Len(targets)
        /\ result.total_ports = Len(port_list)
        /\ \A h \in DOMAIN result.hosts :
              /\ Len(result.hosts[h].ports) = Len(port_list)
              /\ \A k \in DOMAIN port_list : result.hosts[h].ports[k].port = port_list[k]

C4_Witness ==
    /\ Returned
    /\ Len(targets) >= 2
    /\ Len(port_list) >= 2
    /\ result.total_ports = Len(port_list)

\* C5: in every returned host result a PortResult carries a service record
\* only if its status is Open (the detector's answer is used for Open ports only).
C5_ServiceOnlyIfOpen ==
    Returned =>
        \A h \in DOMAIN result.hosts : \A k \in DOMAIN result.hosts[h].ports :
            LET pr == result.hosts[h].ports[k] IN
            pr.service_detected # None => pr.status = "Open"

C5_Witness ==
    /\ Returned
    /\ \E h \in DOMAIN result.hosts : \E k \in DOMAIN result.hosts[h].ports :
          LET pr == result.hosts[h].ports[k] IN
          pr.status = "Open" /\ pr.service_detected # None
    /\ \E h \in DOMAIN result.hosts : \E k \in DOMAIN result.hosts[h].ports :
          LET pr == result.hosts[h].ports[k] IN
          pr.status # "Open" /\ DetectorAnswer(world, h, k) # None

\* C6: once a host of class C has completed and its telemetry has been folded
\* by learn, the scanner's profile of class C includes that fold.
C6_FoldReachesScanner ==
    \A h \in Hosts :
        (hpc[h] = "done" /\ ~IsErr(hostOuts[h])) =>
            LET c == classify_network(targets[h]) IN
            scanner.adaptive_learning[c].seen_count >= hal[h][c].seen_count

\* C7: no step of a port task reads or writes the adaptive state: a port task
\* holds copies of the effective timeout and pacing made when it was spawned,
\* its steps leave every adaptive state and every captured copy unchanged, and
\* a host task's adaptive state changes only in the host task itself, once all
\* port tasks of that host have completed.
C7_AdaptiveStateOutsideProbeTasks ==
    [][ /\ \A h \in Hosts : \A i \in PortsOf(h) :
              captured[h][i] = [timeout |-> eff[h].timeout,
                                rate_limit |-> eff[h].rate_limit]
        /\ (\E h \in Hosts \cap DOMAIN ppc' :
               \E i \in PortsOf(h) \cap DOMAIN ppc'[h] : ppc'[h][i] # ppc[h][i])
              => (hal' = hal /\ captured' = captured /\ eff' = eff /\ scanner' = scanner)
        /\ \A h \in DOMAIN hal \cap DOMAIN hal' :
              hal'[h] # hal[h] =>
                 /\ \A i \in PortsOf(h) : ppc[h][i] = "done"
                 /\ hpc[h] = "scanning"
                 /\ hpc'[h] = "done"
                 /\ ppc' = ppc
      ]_vars

C7_Witness ==
    \E h \in Hosts :
        /\ hpc[h] = "done"
        /\ hal[h] # scanner.adaptive_learning
        /\ Len(ppc[h]) >= 2
        /\ eff[h].rate_limit > 0
        /\ \E g \in Hosts : g # h /\ InFlight(g) # {}

\* C8: after the future returned by scan is dropped, no probe is started or
\* completed, no task makes a step, and no result is emitted.
C8_DropStopsTasks ==
    [][ phase = "dropped" =>
           (pb' = pb /\ ppc' = ppc /\ hpc' = hpc /\ result' = result) ]_vars

\* C9: a probe that classifies its port as Error does not fail the scan: when
\* the expansions succeed the scan returns a result (never an error) in which
\* every port of every host, those after an Error port included, has the
\* status its probe returned.
C9_ProbeErrorConfined ==
    (~ExpansionFails /\ phase \in {"returned", "failed"}) =>
        /\ Returned
        /\ ~IsErr(result)
        /\ DOMAIN result.hosts = DOMAIN targets
        /\ \A h \in DOMAIN result.hosts :
              /\ ~IsErr(result.hosts[h])
              /\ DOMAIN result.hosts[h].ports = DOMAIN port_list
              /\ \A k \in DOMAIN port_list :
                    result.hosts[h].ports[k].status =
                       ProbeStatus(scan_type, privileged, world, h, k)

C9_Witness ==
    /\ Returned
    /\ \E h \in DOMAIN result.hosts :
          \E k \in DOMAIN result.hosts[h].ports : \E l \in DOMAIN result.hosts[h].ports :
             /\ k < l
             /\ result.hosts[h].ports[k].status = "Error"
             /\ result.hosts[h].ports[l].status # "Error"

\* C10: if target expansion or port expansion fails, scan returns that error,
\* no host task is spawned and no probe is launched.
C10_ExpansionFailureAborts ==
    (ExpansionFails /\ phase # "idle") =>
        /\ phase = "failed"
        /\ result = Err(IF reqTargets = ParseError THEN "TargetError" ELSE "PortError")
        /\ hpc = <<>>
        /\ ppc = <<>>
        /\ pb = 0

C10_Witness ==
    /\ phase = "failed"
    /\ reqPorts = ParseError
    /\ reqTargets # ParseError
    /\ Len(targets) >= 1
    /\ IsErr(result)

\* The hosts whose telemetry has been handed to learn_from_scan.
Learned == {h \in DOMAIN learned : learned[h] # NoResult}

\* The ports of host h whose probe ended Filtered or Error without a reply.
SilentPorts(h) ==
    {i \in PortsOf(h) :
        /\ pstatus[h][i] \in {"Filtered", "Error"}
        /\ (PrivilegeDenied(scan_type, privileged) \/ NoReplyObserved(world, h, i))}

RECURSIVE SumOver(_, _)
SumOver(f, S) ==
    IF S = {} THEN 0
    ELSE LET x == CHOOSE y \in S : TRUE IN f[x] + SumOver(f, S \ {x})

\* C11: the timeout rate of the telemetry handed to learn_from_scan for a host
\* (timeout_count over the number of outcomes) is the fraction of the host's
\* port outcomes that are Filtered or Error and had no reply.
C11_TimeoutRateIsSilentFraction ==
    \A h \in Learned :
        /\ learned[h].outcome_count = Len(port_list)
        /\ learned[h].timeout_count = Cardinality(SilentPorts(h))

\* C12: the mean response time of the telemetry is taken over the outcomes
\* that are not timeouts: the sum and the count it is made of leave out every
\* probe that ended without a reply within its budget.
C12_MeanOverRepliesOnly ==
    \A h \in Learned :
        LET replied == PortsOf(h) \ SilentPorts(h)
            elapsed == [i \in PortsOf(h) |->
                           ProbeElapsed(pstatus[h][i], captured[h][i].timeout)]
        IN  /\ learned[h].response_count = Cardinality(replied)
            /\ learned[h].total_response_time = SumOver(elapsed, replied)

\* C13: a port outcome with status Error is in the host result, but not in the
\* port list of the telemetry, and its elapsed time is not in the sum the mean
\* response time is made of.
C13_ErrorElidedFromTelemetry ==
    \A h \in Learned :
        LET errors == {i \in PortsOf(h) : pstatus[h][i] = "Error"}
            others == PortsOf(h) \ errors
            elapsed == [i \in PortsOf(h) |->
                           ProbeElapsed(pstatus[h][i], captured[h][i].timeout)]
            data == learned[h]
        IN  /\ \A i \in errors :
                  \E k \in DOMAIN hostOuts[h].ports :
                     /\ hostOuts[h].ports[k].port = port_list[i]
                     /\ hostOuts[h].ports[k].status = "Error"
            /\ \A i \in errors :
                  \A k \in DOMAIN data.port_results :
                     data.port_results[k].port # port_list[i]
            /\ data.total_response_time = SumOver(elapsed, others)

\* What the controller supplies for the h-th target when its host task starts.
Supplied(h) == get_optimal_params(scanner.adaptive_learning, targets[h])

\* No probe of the current scan call has been launched.
NoProbeLaunched ==
    /\ pb = 0
    /\ \A h \in Hosts : \A i \in PortsOf(h) : ppc[h][i] = "waiting"

\* C14: a host whose network class has a cold profile (the controller
\* supplies no parameter) is scanned with the operator's timeout, the
\* operator's pacing and the operator's per-host parallelism, a setting of its
\* own and not parallel_hosts.
C14_ColdUsesOperatorDefaults ==
    \A h \in Hosts :
        (/\ hpc[h] # "waiting"
         /\ Supplied(h) = [timeout |-> 0, rate_limit |-> 0, parallelism |-> 0])
        => /\ eff[h].timeout = scanner.timeout
           /\ eff[h].rate_limit = scanner.rate_limit
           /\ eff[h].parallelism = DefaultParallelism

\* C15: if parallel_hosts times the per-host parallelism of some target is
\* not below the file-descriptor soft limit, scan has failed with
\* ResourceError and no probe has been launched.
C15_FdBudgetEnforced ==
    (/\ phase # "idle"
     /\ ~ExpansionFails
     /\ \E h \in DOMAIN targets :
           LET per_host == IF Supplied(h).parallelism > 0 THEN Supplied(h).parallelism
                           ELSE scanner.parallel_hosts
           IN  scanner.parallel_hosts * per_host >= FdSoftLimit)
    => /\ phase = "failed"
       /\ result = Err("ResourceError")
       /\ NoProbeLaunched

\* C16: a raw-socket scan kind requested without privilege makes scan fail
\* with PrivilegeError before any host task is spawned or any probe launched.
C16_PrivilegeCheckedUpFront ==
    (/\ phase # "idle"
     /\ ~ExpansionFails
     /\ scan_type \in {"Syn", "Fin", "Xmas", "Null", "Udp"}
     /\ ~privileged)
    => /\ phase = "failed"
       /\ result = Err("PrivilegeError")
       /\ hpc = <<>>
       /\ NoProbeLaunched

\* C17: a port task acquires its permit, runs the probe, records the elapsed
\* time and advances the progress counter, then sleeps rate_limit only if the
\* effective rate_limit is positive, and only then releases the permit and
\* yields its result; the recorded elapsed time is the probe's own and leaves
\* out the pacing sleep.
C17_PortTaskStepOrder ==
    [][\A h \in DOMAIN ppc \cap DOMAIN ppc' :
          \A i \in DOMAIN ppc[h] \cap DOMAIN ppc'[h] :
             LET rate == captured[h][i].rate_limit IN
             /\ (ppc[h][i] = "waiting" /\ ppc'[h][i] # "waiting") =>
                    /\ ppc'[h][i] = "probing"
                    /\ portPermits[h] > 0
                    /\ portPermits'[h] = portPermits[h] - 1
                    /\ pb' = pb
                    /\ outs'[h][i] = NoResult
             /\ (ppc[h][i] = "probing" /\ ppc'[h][i] # "probing") =>
                    /\ pb' = pb + 1
                    /\ pstatus'[h][i] \in PortStatus
                    /\ IF rate > 0
                       THEN /\ ppc'[h][i] = "sleeping"
                            /\ portPermits'[h] = portPermits[h]
                            /\ outs'[h][i] = NoResult
                       ELSE /\ ppc'[h][i] = "done"
                            /\ portPermits'[h] = portPermits[h] + 1
             /\ (ppc[h][i] = "sleeping" /\ ppc'[h][i] # "sleeping") =>
                    /\ rate > 0
                    /\ ppc'[h][i] = "done"
                    /\ portPermits'[h] = portPermits[h] + 1
                    /\ pb' = pb
             /\ (ppc[h][i] # "done" /\ ppc'[h][i] = "done") =>
                    outs'[h][i].response_time =
                       SomeTime(ProbeElapsed(pstatus'[h][i], captured[h][i].timeout))
             /\ ppc[h][i] = "done" => ppc'[h][i] = "done"
      ]_vars

C17_Witness ==
    \E h \in Hosts : \E i \in PortsOf(h) : \E j \in PortsOf(h) :
        /\ ppc[h][i] = "done"
        /\ captured[h][i].rate_limit > 0
        /\ outs[h][i].response_time = SomeTime(ProbeElapsed(pstatus[h][i], eff[h].timeout))
        /\ ppc[h][j] = "sleeping"
        /\ outs[h][j] = NoResult
        /\ portPermits[h] = 0

\* The probes of the current scan call that have returned.
CompletedProbes ==
    {p \in Hosts \X DOMAIN port_list :
        p[2] \in PortsOf(p[1]) /\ pstatus[p[1]][p[2]] \in PortStatus}

\* C18: the progress counter equals the number of probes completed so far,
\* never exceeds |targets| x |ports|, and equals |targets| x |ports| when scan
\* has returned a result.
C18_ProgressCountsProbes ==
    /\ pb = Cardinality(CompletedProbes)
    /\ pb <= Len(targets) * Len(port_list)
    /\ Returned => pb = Len(targets) * Len(port_list)

C18_Witness ==
    /\ Returned
    /\ Len(targets) >= 2
    /\ Len(port_list) >= 2
    /\ pb = Len(targets) * Len(port_list)

\* The addresses the fast connect probe is for: v4 10/8, 172.16/12,
\* 192.168/16, 127/8; v6 loopback and fc00::/7.
PrivateOrLoopback(ip) ==
    IF IsV4(ip)
    THEN \/ ip[1] = 10
         \/ (ip[1] = 172 /\ ip[2] \div 16 = 1)
         \/ (ip[1] = 192 /\ ip[2] = 168)
         \/ ip[1] = 127
    ELSE \/ ip = <<0, 0, 0, 0, 0, 0, 0, 1>>
         \/ ip[1] \div 512 = 126

\* C19: in a connect scan every probe is the fast connect probe if the
\* address is private or loopback, and the normal connect probe otherwise.
C19_FastIffPrivateOrLoopback ==
    scan_type = "Connect" =>
        \A h \in DOMAIN probeFn : \A i \in DOMAIN probeFn[h] :
            probeFn[h][i] # None =>
                probeFn[h][i] = (IF PrivateOrLoopback(targets[h]) THEN "fast_connect_scan"
                                 ELSE "connect_scan")

\* The number of port results of the hosts in S.
PortResultCount(hosts, S) == SumOver([g \in DOMAIN hosts |-> Len(hosts[g].ports)], S)

\* C20: the CSV output is the header line followed by exactly one row per
\* (host, port) pair of the result, hosts in result order and ports in each
\* host's order, so that the row count is the sum of the hosts' port result
\* counts.
C20_CsvHeaderAndRows ==
    output # <<>> =>
        LET hosts == result.hosts IN
        /\ Len(output) = 1 + PortResultCount(hosts, DOMAIN hosts)
        /\ output[1] = <<"target", "target_ip", "port", "status", "scan_type">>
        /\ \A h \in DOMAIN hosts : \A k \in DOMAIN hosts[h].ports :
              output[1 + PortResultCount(hosts, 1 .. h - 1) + k] =
                 <<hosts[h].target, IpText(hosts[h].target_ip), hosts[h].ports[k].port,
                   hosts[h].ports[k].status, result.scan_type>>

C20_Witness ==
    /\ Len(output) = 5
    /\ Len(result.hosts) = 2
    /\ \E h \in DOMAIN result.hosts : \E k \in DOMAIN result.hosts[h].ports :
          result.hosts[h].ports[k].status # "Open"

(***************************************************************************)
(* Service plugins                                                         *)
(***************************************************************************)
\* The detect_service call of the HTTP plugin got a response from its peer.
HttpAnswered ==
    /\ det.stage = "returned"
    /\ det.plugin = "http_service"
    /\ det.peer.connect = "accepted"
    /\ det.peer.write = "ok"
    /\ det.peer.read = "data"

\* The header lines of a response: the lines after the first, up to the
\* empty line that ends the head.
HeaderLines(response) ==
    {k \in 2 .. Len(response) : \A l \in 1 .. k : response[l] # <<>>}

ServerHeaders(response) ==
    {k \in HeaderLines(response) :
        /\ Len(response[k]) >= 2
        /\ response[k][1] \in {"Server", "SERVER", "server"}
        /\ response[k][2] = ":"}

FirstServerHeader(response) ==
    response[CHOOSE k \in ServerHeaders(response) : \A l \in ServerHeaders(response) : k <= l]

\* v is raw without the white space around it.
IsTrimOf(v, raw) ==
    /\ v # <<>> => v[1] # " " /\ v[Len(v)] # " "
    /\ \E i \in 0 .. Len(raw) : \E j \in i .. Len(raw) :
          /\ v = SubSeq(raw, i + 1, j)
          /\ \A k \in (1 .. i) \cup ((j + 1) .. Len(raw)) : raw[k] = " "

\* C21: the HTTP rule yields a service exactly for a response that starts
\* with HTTP/; the service is named HTTP, its banner is the first line, its
\* confidence 0.9, and when the response has a Server header, "server" maps
\* to the trimmed value of the first one.
C21_HttpRule ==
    HttpAnswered =>
        LET response == det.peer.response
            service == det.value.ok
        IN  IF response # <<>> /\ response[1] # <<>> /\ response[1][1] = "HTTP/"
            THEN /\ service # NoValue
                 /\ service[1].name = "HTTP"
                 /\ service[1].banner = Some(response[1])
                 /\ service[1].confidence = 90
                 /\ ServerHeaders(response) # {} =>
                       \E value \in {pair[2] : pair \in service[1].additional_info} :
                          /\ service[1].additional_info = {<<"server", value>>}
                          /\ IsTrimOf(value, SubSeq(FirstServerHeader(response), 3,
                                                    Len(FirstServerHeader(response))))
            ELSE service = NoValue

\* A response whose first Server header, after another header, has a value
\* with a colon in it and white space around it.
C21_Witness ==
    /\ HttpAnswered
    /\ det.peer.response = <<StatusLine, ServerLine, ContentTypeLine, <<>>, BodyServerLine>>
    /\ det.value = Ok(Some([name |-> "HTTP", version |-> NoValue,
                            banner |-> Some(StatusLine), confidence |-> 90,
                            additional_info |-> {<<"server", <<"nginx", ":", "1.18">>>>}]))

(***************************************************************************)
(* Config                                                                  *)
(***************************************************************************)
\* The configured default that a getter falls back to.
ConfiguredDefault(getter) ==
    CASE getter = "get_effective_timeout" -> config.scanning.default_timeout
      [] getter = "get_effective_rate_limit" -> config.scanning.default_rate_limit
      [] getter = "get_effective_parallelism" -> config.scanning.default_parallelism

\* C22: each of get_effective_timeout, get_effective_rate_limit and
\* get_effective_parallelism returns the adaptive value when adaptive learning
\* is enabled and an adaptive value is given, and the configured default in
\* every other case.
C22_EffectiveValues ==
    ret.call \in {"get_effective_timeout", "get_effective_rate_limit",
                  "get_effective_parallelism"} =>
        ret.value = IF config.adaptive.enabled /\ ret.args # NoValue
                    THEN ret.args[1]
                    ELSE ConfiguredDefault(ret.call)

\* An adaptive value is given while adaptive learning is disabled.
C22_Witness ==
    /\ ret.call = "get_effective_timeout"
    /\ ~config.adaptive.enabled
    /\ ret.args = Some(500)
    /\ config.scanning.default_timeout = 1000
    /\ ret.value = 1000

\* The learning rate is a number strictly between 0 and 1.
StrictlyBetween0And1(rate) == ~rate.nan /\ 0 < rate.tenths /\ rate.tenths < 10

\* C23: validate returns Ok exactly when default_timeout > 0,
\* default_parallelism > 0, learning_rate is strictly between 0 and 1 and
\* default_format is one of human, json, xml, csv, and an error otherwise;
\* the default configuration validates.
C23_ValidateExact ==
    ret.call = "validate" =>
        /\ ret.value = Ok(Unit) <=>
              /\ config.scanning.default_timeout > 0
              /\ config.scanning.default_parallelism > 0
              /\ StrictlyBetween0And1(config.adaptive.learning_rate)
              /\ config.output.default_format \in {"human", "json", "xml", "csv"}
        /\ ret.value # Ok(Unit) => IsErr(ret.value)
        /\ config = DefaultConfig => ret.value = Ok(Unit)

(***************************************************************************)
(* PluginManager                                                           *)
(***************************************************************************)
\* The names of the plugins registered, of whatever kind.
Registered ==
    manager.scanner_plugins \cup manager.output_plugins \cup manager.service_plugins

\* C24: list_plugins returns the names of all registered plugins in ascending
\* order, each registered name once: none for a new manager, and tcp_connect,
\* human_output and json_output among them after load_builtin_plugins.
C24_ListIsSortedSetOfNames ==
    ret.call = "list_plugins" =>
        /\ {ret.value[i] : i \in DOMAIN ret.value} = Registered
        /\ \A i, j \in DOMAIN ret.value :
              i < j => Rank(ret.value[i]) < Rank(ret.value[j])

\* C27: enable_plugin and disable_plugin on a name without a stored
\* configuration return PluginError::NotFound and leave the manager as it
\* was; on a name with a configuration they return Ok and set the enabled
\* flag of that configuration, leaving its priority and settings, the
\* registered plugins and every other configuration as they were.
C27_EnableDisableFrame ==
    [][ret'.call \in {"enable_plugin", "disable_plugin"} =>
          LET name == ret'.args IN
          IF manager.plugin_configs[name] = NoValue
          THEN /\ ret'.value = Err(NotFound(name))
               /\ manager' = manager
          ELSE /\ ret'.value = Ok(Unit)
               /\ manager'.plugin_configs[name] # NoValue
               /\ manager'.plugin_configs[name][1].enabled = (ret'.call = "enable_plugin")
               /\ manager'.plugin_configs[name][1].priority =
                     manager.plugin_configs[name][1].priority
               /\ manager'.plugin_configs[name][1].settings =
                     manager.plugin_configs[name][1].settings
               /\ \A other \in Names \ {name} :
                     manager'.plugin_configs[other] = manager.plugin_configs[other]
               /\ manager'.scanner_plugins = manager.scanner_plugins
               /\ manager'.output_plugins = manager.output_plugins
               /\ manager'.service_plugins = manager.service_plugins]_vars

\* A plugin registered disabled, with settings and a priority of its own, has
\* been enabled.
C27_Witness ==
    /\ ret.call = "enable_plugin"
    /\ ret.args = "tcp_connect"
    /\ ret.value = Ok(Unit)
    /\ manager.plugin_configs["tcp_connect"] =
          Some([CustomPluginConfig EXCEPT !.enabled = TRUE])
    /\ manager.plugin_configs["json_output"] = Some(CustomPluginConfig)

\* C30: every name with a stored plugin configuration is the name of a
\* registered plugin, so that is_plugin_enabled is true for registered
\* plugins only, and the enabled flag of a registered plugin changes only
\* through enable_plugin, disable_plugin or update_plugin_config on its name.
C30_ConfigsOfRegisteredOnly ==
    /\ [](\A name \in Names :
            /\ manager.plugin_configs[name] # NoValue => name \in Registered
            /\ (ret.call = "is_plugin_enabled" /\ ret.args = name /\ ret.value = TRUE)
                  => name \in Registered)
    /\ [][\A name \in Registered :
            /\ manager.plugin_configs[name] # NoValue
            /\ manager'.plugin_configs[name] # NoValue
            /\ manager'.plugin_configs[name][1].enabled # manager.plugin_configs[name][1].enabled
            => /\ ret'.call \in {"enable_plugin", "disable_plugin", "update_plugin_config"}
               /\ ret'.args = name]_vars

Emits(h) ==
    scanner.adaptive_learning[classify_network(targets[h])].seen_count
        >= MinScansForOptimization

\* C26: when the controller emits parameters for a host's class, the host scan
\* uses the emitted timeout, pacing and parallelism as they are; with an
\* emitted pacing of 0 ms no port task of the host sleeps, whatever the
\* operator's pacing.
C26_EmittedParamsUsedAsIs ==
    \A h \in Hosts :
        (hpc[h] # "waiting" /\ Emits(h)) =>
            /\ eff[h].timeout = Supplied(h).timeout
            /\ eff[h].rate_limit = Supplied(h).rate_limit
            /\ eff[h].parallelism = Supplied(h).parallelism
            /\ Supplied(h).rate_limit = 0 =>
                  \A i \in PortsOf(h) : ppc[h][i] # "sleeping"

(***************************************************************************)
(* Termination                                                             *)
(***************************************************************************)
\* C28: every probe and every service detection terminating, a scan call that
\* has spawned its host tasks eventually returns a result or an error (unless
\* the caller drops it), whatever parallel_hosts and the effective
\* parallelism are: no host task and no port task waits on a semaphore
\* for ever.
C28_ScanReturns ==
    (phase = "joining") ~> (phase \in {"returned", "failed", "dropped"})

\* C29: a detect_service call of the HTTP or of the SSH plugin completes and
\* returns Ok (with or without a service), whatever the peer does: refuse or
\* time out the connection, fail the write, accept and then send nothing, or
\* send a response that does not match.
C29_DetectServiceReturnsOk ==
    <>(det.stage = "returned" /\ det.value # NoCall /\ ~IsErr(det.value))

=============================================================================
